---------------------------- MODULE Spec2Model ----------------------------
(* A model of the K21elec election-audit pipeline (src/App.tsx):           *)
(* the extraction run (startExtraction / processFile), the page classifier,*)
(* the districtSummary reduction and the downloadCSV export.               *)
(*                                                                         *)
(* Strings of the source that are not ASCII are written in ASCII here; the *)
(* comment beside each one gives the place of the original.                *)
EXTENDS Integers, Sequences, FiniteSets

(***************************************************************************)
(* Bounds of the model.                                                    *)
(***************************************************************************)
\* the longest file list a change event of the file input carries
MaxFiles == 2
\* the largest numPages of a PDF in the pipeline specification
MaxPages == 2
\* the largest page index the classifier specification starts from
MaxPageIndex == 172
\* the longest results collection the derived views are applied to
MaxLen == 3
\* how many of the names of TARGET_CANDIDATES the model uses
NumCandidates == 2

(***************************************************************************)
(* Data: src/unnamed/part_000 (types) and the extractor's payloads.        *)
(***************************************************************************)
\* App.tsx:11; in order: the five names of the source, transliterated
ALL_CANDIDATES == <<"LeeJM", "KimMS", "LeeJS", "KwonYG", "SongJH">>

TARGET_CANDIDATES == SubSeq(ALL_CANDIDATES, 1, NumCandidates)

\* the labels of App.tsx:63-67 (the Korean part of each label is dropped)
EarlyIn     == "(Early In)"
ElectionDay == "(Election Day)"
EarlyOut    == "(Early Out)"
Overseas    == "(Overseas)"
Absentee    == "(Absentee)"

\* interface CandidateVote
CandidateVote(name, classified, reconfirm, total) ==
    [candidateName |-> name, classifiedVotes |-> classified,
     reconfirmVotes |-> reconfirm, totalVotes |-> total]

\* interface ElectionPageData; pageNumber 0 stands for an absent pageNumber
ElectionPageData(page, district, type, cvs, valid, invalid, total) ==
    [pageNumber |-> page, district |-> district, votingType |-> type,
     candidateVotes |-> cvs, validVotes |-> valid, invalidVotes |-> invalid,
     totalVotes |-> total]

\* Payloads the extraction call resolves with (JSON.parse of the response).
\* Districts: two names, the empty string, the literal "Unknown", a numeric
\* one. Candidate lists: empty, one entry, two names in either order, the
\* same name twice, a stored total that is not classified + reconfirm, and
\* an entry of zeros.
ExtractorOutputs ==
    { ElectionPageData(0, "Hallim", "election day",
          <<CandidateVote("LeeJM", 100, 5, 105)>>, 105, 2, 107),
      ElectionPageData(99, "Hallim", "(Early Out)",
          <<CandidateVote("KimMS", 3, 1, 4), CandidateVote("LeeJM", 7, 0, 9)>>,
          13, 1, 15),
      ElectionPageData(0, "", "",
          <<>>, 0, 0, 0),
      ElectionPageData(0, "7", "early in",
          <<CandidateVote("LeeJM", 1, 1, 2), CandidateVote("LeeJM", 4, 0, 4)>>,
          6, 0, 6),
      ElectionPageData(0, "Aewol", "election day",
          <<CandidateVote("KimMS", 0, 0, 0), CandidateVote("LeeJM", 20, 3, 23)>>,
          23, 4, 27),
      ElectionPageData(0, "Unknown", "overseas",
          <<CandidateVote("KimMS", 8, 2, 10)>>, 10, 0, 10) }

\* The payloads the pipeline specification draws from: one that carries a
\* pageNumber and a votingType of its own.
PipelineOutputs ==
    { d \in ExtractorOutputs : d.pageNumber # 0 }

(***************************************************************************)
(* State: the useState cells of App (App.tsx:14-19), the position of the   *)
(* running startExtraction / processFile call, and the product of the last *)
(* downloadCSV.                                                            *)
(***************************************************************************)
VARIABLES
    files,              \* useState<File[]>
    results,            \* useState<ElectionPageData[]>
    isProcessing,       \* useState(false)
    progress,           \* useState(0)
    error,              \* useState<string | null>
    selectedCandidates, \* useState<string[]>(TARGET_CANDIDATES)
    pc,                 \* where the run is suspended: idle, load, render, extract
    runFiles,           \* the files array the running startExtraction closed over
    fileIdx,            \* i of startExtraction's loop (0-based)
    pageIdx,            \* i of processFile's loop (1-based)
    pagesCount,         \* pdf.numPages of the file being processed
    csv,                \* the lines of the file the last step downloaded, NoFile if it downloaded none
    origin,             \* history: for each element of results, the run and file that appended it
    discarded,          \* history: the last startExtraction found records of an earlier run
    exported            \* history: the last step was a call of downloadCSV

vars == <<files, results, isProcessing, progress, error, selectedCandidates,
          pc, runFiles, fileIdx, pageIdx, pagesCount, csv, origin, discarded,
          exported>>


\* error === null
NoError == "null"

\* the message of App.tsx:90
ExtractionFailed == "Extraction failed"

\* no file
NoFile == <<>>

\* a step of the run, or a change of the file list, leaves the selection
\* alone and downloads nothing
NoView == UNCHANGED selectedCandidates /\ csv' = NoFile /\ exported' = FALSE

\* A File: all the code reads of it is whether its type is application/pdf
File(isPdf) == [pdf |-> isPdf]

Files == {File(TRUE), File(FALSE)}

RECURSIVE SeqsUpTo(_, _)
\* the sequences over S of length at most n
SeqsUpTo(S, n) ==
    IF n = 0 THEN {<<>>}
    ELSE LET shorter == SeqsUpTo(S, n - 1)
         IN  shorter \cup {Append(q, x) : q \in {r \in shorter : Len(r) = n - 1}, x \in S}

FileLists == SeqsUpTo(Files, MaxFiles)

(***************************************************************************)
(* The page classifier, App.tsx:62-67.                                     *)
(***************************************************************************)
\* mappedType with the first range one page short
MutMappedType(i, votingType) ==
    IF i >= 1 /\ i < 26 THEN EarlyIn
    ELSE IF i >= 27 /\ i <= 168 THEN ElectionDay
    ELSE IF i = 169 THEN EarlyOut
    ELSE IF i = 170 THEN Overseas
    ELSE IF i = 171 THEN Absentee
    ELSE votingType

mappedType(i, votingType) ==
    IF i >= 1 /\ i <= 26 THEN EarlyIn
    ELSE IF i >= 27 /\ i <= 168 THEN ElectionDay
    ELSE IF i = 169 THEN EarlyOut
    ELSE IF i = 170 THEN Overseas
    ELSE IF i = 171 THEN Absentee
    ELSE votingType

\* PageRecord with the payload spread last: its own pageNumber, when it has
\* one, wins
MutPageRecord(data, i) ==
    [data EXCEPT !.votingType = mappedType(i, data.votingType),
                 !.pageNumber = IF data.pageNumber # 0 THEN data.pageNumber ELSE i]

\* { ...data, votingType: mappedType, pageNumber: i }, App.tsx:69
PageRecord(data, i) ==
    [data EXCEPT !.votingType = mappedType(i, data.votingType), !.pageNumber = i]

\* Math.round of n / d for n >= 0, d > 0: halves round up
Round(n, d) == (2 * n + d) \div (2 * d)

\* ProgressAfter without the files already done
MutProgressAfter(startIndex, i, count, totalFiles) ==
    Round(i * 100, count * totalFiles)

\* Math.round(((startIndex + (i / pagesCount)) / totalFiles) * 100), App.tsx:73
ProgressAfter(startIndex, i, count, totalFiles) ==
    Round((startIndex * count + i) * 100, count * totalFiles)

(***************************************************************************)
(* handleFileChange, App.tsx:32-37. The input is not disabled during a run.*)
(***************************************************************************)
handleFileChange(list) ==
    /\ files' = list
    /\ error' = NoError
    /\ UNCHANGED <<results, isProcessing, progress, pc, runFiles, fileIdx,
                   pageIdx, pagesCount, origin, discarded>>
    /\ NoView

(***************************************************************************)
(* startExtraction, App.tsx:78-95, up to its first suspension.             *)
(***************************************************************************)
\* ResetResults that keeps the records
MutResetResults(prev) == prev

\* setResults([]), App.tsx:81
ResetResults(prev) == <<>>

\* The origin of what a reset leaves: nothing is left by the code's reset.
ResetOrigin(prev, kept) ==
    [k \in 1..Len(kept) |-> [prev[k] EXCEPT !.run = "earlier"]]

\* The loop header of startExtraction (App.tsx:86) with processFile's test of
\* the file type (App.tsx:51), entered with loop index i: files that are not
\* PDFs return at once, a PDF suspends at arrayBuffer(), the end of the list
\* reaches the finally block (App.tsx:92-93).
RECURSIVE NextPdf(_, _)
NextPdf(list, i) ==
    IF i >= Len(list) THEN i
    ELSE IF list[i + 1].pdf THEN i
    ELSE NextPdf(list, i + 1)


\* Finally without setProgress(100)
MutFinally ==
    /\ pc' = "idle"
    /\ isProcessing' = FALSE
    /\ progress' = progress
    /\ runFiles' = <<>>
    /\ fileIdx' = 0
    /\ pageIdx' = 0
    /\ pagesCount' = 0

\* finally { setIsProcessing(false); setProgress(100); }, App.tsx:91-94; the
\* locals of the finished call are gone
Finally ==
    /\ pc' = "idle"
    /\ isProcessing' = FALSE
    /\ progress' = 100
    /\ runFiles' = <<>>
    /\ fileIdx' = 0
    /\ pageIdx' = 0
    /\ pagesCount' = 0

\* `written` is the progress last written before the loop header is reached
EnterFileLoop(list, i, written) ==
    LET j == NextPdf(list, i)
    IN  IF j < Len(list)
          THEN /\ pc' = "load"
               /\ isProcessing' = TRUE
               /\ progress' = written
               /\ runFiles' = list
               /\ fileIdx' = j
               /\ pageIdx' = 0
               /\ pagesCount' = 0
          ELSE Finally

startExtraction ==
    /\ pc = "idle"
    /\ ~isProcessing                \* the button is disabled while processing
    /\ Len(files) # 0
    /\ results' = ResetResults(results)
    /\ origin' = ResetOrigin(origin, results')
    /\ error' = NoError
    /\ discarded' = (results # <<>>)
    /\ EnterFileLoop(files, 0, 0)
    /\ UNCHANGED files
    /\ NoView

(***************************************************************************)
(* processFile, App.tsx:50-76, one action per way an await settles.        *)
(***************************************************************************)
\* Abort that also drops what the run had appended
MutAbort ==
    /\ error' = ExtractionFailed
    /\ Finally
    /\ results' = <<>>
    /\ origin' = <<>>
    /\ UNCHANGED <<files, discarded>>
    /\ NoView

\* catch (err) { setError(...) } finally {...}, App.tsx:89-94: what a
\* rejection outside the per-page try does
Abort ==
    /\ error' = ExtractionFailed
    /\ Finally
    /\ UNCHANGED <<files, results, origin, discarded>>
    /\ NoView

\* file.arrayBuffer() and getDocument resolve with a document of numPages
\* pages, App.tsx:52-54
LoadOK(numPages) ==
    /\ pc = "load"
    /\ pagesCount' = numPages
    /\ pageIdx' = 1
    /\ pc' = "render"
    /\ UNCHANGED <<files, results, isProcessing, progress, error, runFiles,
                   fileIdx, origin, discarded>>
    /\ NoView

\* file.arrayBuffer() or getDocument rejects
LoadFail ==
    /\ pc = "load"
    /\ Abort

\* getPage and renderPageToDataUrl resolve, App.tsx:57-58
RenderOK ==
    /\ pc = "render"
    /\ pc' = "extract"
    /\ UNCHANGED <<files, results, isProcessing, progress, error, runFiles,
                   fileIdx, pageIdx, pagesCount, origin, discarded>>
    /\ NoView

\* getPage or renderPageToDataUrl rejects (App.tsx:45 throws too)
RenderFail ==
    /\ pc = "render"
    /\ Abort

\* setProgress of App.tsx:73, the loop step of App.tsx:56 and, after the last
\* page, the return to startExtraction's loop
AfterPage ==
    LET written == ProgressAfter(fileIdx, pageIdx, pagesCount, Len(runFiles))
    IN  IF pageIdx < pagesCount
          THEN /\ pc' = "render"
               /\ pageIdx' = pageIdx + 1
               /\ progress' = written
               /\ UNCHANGED <<isProcessing, runFiles, fileIdx, pagesCount>>
          ELSE EnterFileLoop(runFiles, fileIdx + 1, written)

\* extractDataFromImage resolves with data, App.tsx:60-69
ExtractOK(data) ==
    /\ pc = "extract"
    /\ results' = Append(results, PageRecord(data, pageIdx))
    /\ origin' = Append(origin, [run |-> "current", file |-> fileIdx])
    /\ AfterPage
    /\ UNCHANGED <<files, error, discarded>>
    /\ NoView

\* ExtractFail without the per-page try: the rejection reaches the catch of
\* startExtraction
MutExtractFail ==
    /\ pc = "extract"
    /\ Abort

\* extractDataFromImage rejects: catch (err) { console.error }, App.tsx:70-72
ExtractFail ==
    /\ pc = "extract"
    /\ AfterPage
    /\ UNCHANGED <<files, results, origin, error, discarded>>
    /\ NoView

RunStep ==
    \/ \E numPages \in 1..MaxPages : LoadOK(numPages)
    \/ LoadFail
    \/ RenderOK
    \/ RenderFail
    \/ \E data \in PipelineOutputs : ExtractOK(data)
    \/ ExtractFail

(***************************************************************************)
(* districtSummary, App.tsx:97-119.                                        *)
(***************************************************************************)
\* Key without the default
MutKey(page) == page.district

\* page.district || "Unknown", App.tsx:100
Key(page) == IF page.district = "" THEN "Unknown" ELSE page.district

\* { classified: 0, reconfirm: 0, total: 0 }, App.tsx:110
ZeroVotes == [classified |-> 0, reconfirm |-> 0, total |-> 0]

\* { district: key, votesByCandidate: {}, validTotal: 0, ... }, App.tsx:102
NewEntry(key) ==
    [district |-> key, votesByCandidate |-> [n \in {} |-> ZeroVotes],
     validTotal |-> 0, invalidTotal |-> 0, grandTotal |-> 0]

\* AddCandidate with = in place of +=
MutAddCandidate(votes, cv) ==
    LET name == cv.candidateName
    IN  [n \in DOMAIN votes \cup {name} |->
            IF n = name
              THEN [classified |-> cv.classifiedVotes, reconfirm |-> cv.reconfirmVotes,
                    total |-> cv.totalVotes]
              ELSE votes[n]]

\* the body of page.candidateVotes.forEach, App.tsx:109-115
AddCandidate(votes, cv) ==
    LET name == cv.candidateName
        created == [n \in DOMAIN votes \cup {name} |->
                       IF n \in DOMAIN votes THEN votes[n] ELSE ZeroVotes]
    IN  [created EXCEPT ![name] =
            [classified |-> @.classified + cv.classifiedVotes,
             reconfirm  |-> @.reconfirm + cv.reconfirmVotes,
             total      |-> @.total + cv.totalVotes]]

RECURSIVE AddCandidates(_, _)
\* page.candidateVotes.forEach, App.tsx:108
AddCandidates(votes, cvs) ==
    IF cvs = <<>> THEN votes
    ELSE AddCandidates(AddCandidate(votes, Head(cvs)), Tail(cvs))

\* the position of key among the entries of map, 0 when map[key] is undefined
\* Lookup that sees the entry created last only
MutLookup(map, key, k) ==
    IF map # <<>> /\ map[Len(map)].district = key THEN Len(map) ELSE 0

RECURSIVE Lookup(_, _, _)
Lookup(map, key, k) ==
    IF k > Len(map) THEN 0
    ELSE IF map[k].district = key THEN k
    ELSE Lookup(map, key, k + 1)

\* the body of results.forEach, App.tsx:100-116; map holds the entries of the
\* object in the order their keys were created
AddPage(map, page) ==
    LET key == Key(page)
        found == Lookup(map, key, 1)
        map1 == IF found = 0 THEN Append(map, NewEntry(key)) ELSE map
        at == IF found = 0 THEN Len(map1) ELSE found
    IN  [map1 EXCEPT ![at] =
            [district |-> @.district,
             votesByCandidate |-> AddCandidates(@.votesByCandidate, page.candidateVotes),
             validTotal |-> @.validTotal + page.validVotes,
             invalidTotal |-> @.invalidTotal + page.invalidVotes,
             grandTotal |-> @.grandTotal + page.totalVotes]]

RECURSIVE AddPages(_, _)
\* results.forEach, App.tsx:99
AddPages(map, pages) ==
    IF pages = <<>> THEN map
    ELSE AddPages(AddPage(map, Head(pages)), Tail(pages))

\* The value of a key that is a canonical array index ("7", "12"), -1 for any
\* other key: the districts of the model hold one such key.
ArrayIndex(key) ==
    IF key = "7" THEN 7 ELSE IF key = "12" THEN 12 ELSE -1

RECURSIVE Ascending(_)
\* the entries of a list of array-index keys in ascending numeric order
Ascending(entries) ==
    IF entries = <<>> THEN <<>>
    ELSE LET least == CHOOSE k \in 1..Len(entries) :
                          \A m \in 1..Len(entries) :
                              ArrayIndex(entries[k].district) <= ArrayIndex(entries[m].district)
             rest == [m \in 1..(Len(entries) - 1) |->
                          IF m < least THEN entries[m] ELSE entries[m + 1]]
         IN  <<entries[least]>> \o Ascending(rest)

\* Object.values(map), App.tsx:118: own properties in the order of
\* OrdinaryOwnPropertyKeys, array-index keys first in ascending numeric
\* order, then the other string keys in creation order
ObjectValues(map) ==
    LET IsIndex(e) == ArrayIndex(e.district) >= 0
        IsName(e) == ArrayIndex(e.district) < 0
    IN  Ascending(SelectSeq(map, IsIndex)) \o SelectSeq(map, IsName)

districtSummary(pages) == ObjectValues(AddPages(<<>>, pages))

(***************************************************************************)
(* The candidate selection, App.tsx:21-30.                                 *)
(***************************************************************************)
Includes(q, x) == \E k \in 1..Len(q) : q[k] = x

toggleCandidate(candidate) ==
    /\ selectedCandidates' =
          IF Includes(selectedCandidates, candidate)
            THEN LET Other(c) == c # candidate IN SelectSeq(selectedCandidates, Other)
            ELSE Append(selectedCandidates, candidate)
    /\ csv' = NoFile
    /\ exported' = FALSE
    /\ UNCHANGED <<files, results, isProcessing, progress, error, pc, runFiles,
                   fileIdx, pageIdx, pagesCount, origin, discarded>>

selectAllCandidates ==
    /\ selectedCandidates' = TARGET_CANDIDATES
    /\ csv' = NoFile
    /\ exported' = FALSE
    /\ UNCHANGED <<files, results, isProcessing, progress, error, pc, runFiles,
                   fileIdx, pageIdx, pagesCount, origin, discarded>>

clearAllCandidates ==
    /\ selectedCandidates' = <<>>
    /\ csv' = NoFile
    /\ exported' = FALSE
    /\ UNCHANGED <<files, results, isProcessing, progress, error, pc, runFiles,
                   fileIdx, pageIdx, pagesCount, origin, discarded>>

(***************************************************************************)
(* downloadCSV, App.tsx:121-153. The file is a sequence of lines; a line   *)
(* is its text cells followed by its numeric cells.                        *)
(***************************************************************************)
Line(text, nums) == [text |-> text, nums |-> nums]

\* a field written between double quotes, App.tsx:130
Quoted(str) == "\"" \o str \o "\""

\* the label of the totals row, App.tsx:139
TotalLabel == "Grand Total"

RECURSIVE Find(_, _, _)
\* r.candidateVotes.find(v => v.candidateName === c): the position of the
\* first match, 0 for undefined
Find(cvs, c, k) ==
    IF k > Len(cvs) THEN 0
    ELSE IF cvs[k].candidateName = c THEN k
    ELSE Find(cvs, c, k + 1)

\* CandidateCells with the total recomputed from its parts
MutCandidateCells(r, c) ==
    LET at == Find(r.candidateVotes, c, 1)
    IN  IF at = 0 THEN <<0, 0, 0>>
        ELSE <<r.candidateVotes[at].classifiedVotes,
               r.candidateVotes[at].reconfirmVotes,
               r.candidateVotes[at].classifiedVotes + r.candidateVotes[at].reconfirmVotes>>

\* cv?.classifiedVotes || 0 and its two siblings, App.tsx:133
CandidateCells(r, c) ==
    LET at == Find(r.candidateVotes, c, 1)
    IN  IF at = 0 THEN <<0, 0, 0>>
        ELSE <<r.candidateVotes[at].classifiedVotes,
               r.candidateVotes[at].reconfirmVotes,
               r.candidateVotes[at].totalVotes>>

RECURSIVE Flatten(_)
Flatten(qq) == IF qq = <<>> THEN <<>> ELSE Head(qq) \o Flatten(Tail(qq))

\* the header line, App.tsx:123-126
HeaderLine(selection) ==
    Line(<<"district", "type", "valid", "invalid", "total">>
           \o Flatten([k \in 1..Len(selection) |->
                  <<selection[k] \o "_classified", selection[k] \o "_reconfirm",
                    selection[k] \o "_total">>]),
         <<>>)

\* DataLine over TARGET_CANDIDATES in place of the selection
MutDataLine(r, selection) ==
    Line(<<Quoted(r.district), Quoted(r.votingType)>>,
         <<r.validVotes, r.invalidVotes, r.totalVotes>>
           \o Flatten([k \in 1..Len(TARGET_CANDIDATES) |->
                          CandidateCells(r, TARGET_CANDIDATES[k])]))

\* one data row, App.tsx:130-134
DataLine(r, selection) ==
    Line(<<Quoted(r.district), Quoted(r.votingType)>>,
         <<r.validVotes, r.invalidVotes, r.totalVotes>>
           \o Flatten([k \in 1..Len(selection) |-> CandidateCells(r, selection[k])]))

RECURSIVE Reduce(_, _)
\* values.reduce((a, b) => a + b, acc) over the values read off the pages
Reduce(values, acc) ==
    IF values = <<>> THEN acc
    ELSE Reduce(Tail(values), acc + Head(values))

\* CandidateTotals with the reconfirm sum read off classifiedVotes
MutCandidateTotals(pages, c) ==
    <<Reduce([k \in 1..Len(pages) |-> CandidateCells(pages[k], c)[1]], 0),
      Reduce([k \in 1..Len(pages) |-> CandidateCells(pages[k], c)[1]], 0),
      Reduce([k \in 1..Len(pages) |-> CandidateCells(pages[k], c)[3]], 0)>>

\* the totals of one candidate, App.tsx:141-143
CandidateTotals(pages, c) ==
    <<Reduce([k \in 1..Len(pages) |-> CandidateCells(pages[k], c)[1]], 0),
      Reduce([k \in 1..Len(pages) |-> CandidateCells(pages[k], c)[2]], 0),
      Reduce([k \in 1..Len(pages) |-> CandidateCells(pages[k], c)[3]], 0)>>

\* the totals row, App.tsx:139-145
TotalLine(pages, selection) ==
    Line(<<Quoted(TotalLabel), Quoted("")>>,
         <<Reduce([k \in 1..Len(pages) |-> pages[k].validVotes], 0),
           Reduce([k \in 1..Len(pages) |-> pages[k].invalidVotes], 0),
           Reduce([k \in 1..Len(pages) |-> pages[k].totalVotes], 0)>>
           \o Flatten([k \in 1..Len(selection) |-> CandidateTotals(pages, selection[k])]))

\* the text handed to the Blob, App.tsx:127-146, line by line
CsvLines(pages, selection) ==
    <<HeaderLine(selection)>>
      \o [k \in 1..Len(pages) |-> DataLine(pages[k], selection)]
      \o <<TotalLine(pages, selection)>>

\* downloadCSV without the early return of App.tsx:122
MutDownloadCSV ==
    /\ csv' = CsvLines(results, selectedCandidates)
    /\ exported' = TRUE
    /\ UNCHANGED <<files, results, isProcessing, progress, error, selectedCandidates,
                   pc, runFiles, fileIdx, pageIdx, pagesCount, origin, discarded>>

\* downloadCSV, App.tsx:121-153: the early return of line 122, else the file
\* handed to the browser; no state setter is called
downloadCSV ==
    /\ csv' = IF Len(results) = 0 \/ Len(selectedCandidates) = 0
                THEN NoFile
                ELSE CsvLines(results, selectedCandidates)
    /\ exported' = TRUE
    /\ UNCHANGED <<files, results, isProcessing, progress, error, selectedCandidates,
                   pc, runFiles, fileIdx, pageIdx, pagesCount, origin, discarded>>

Init ==
    /\ files = <<>>
    /\ results = <<>>
    /\ isProcessing = FALSE
    /\ progress = 0
    /\ error = NoError
    /\ selectedCandidates = TARGET_CANDIDATES
    /\ pc = "idle"
    /\ runFiles = <<>>
    /\ fileIdx = 0
    /\ pageIdx = 0
    /\ pagesCount = 0
    /\ csv = NoFile
    /\ origin = <<>>
    /\ discarded = FALSE
    /\ exported = FALSE

Next ==
    \/ \E list \in FileLists : handleFileChange(list)
    \/ startExtraction
    \/ RunStep

Spec == Init /\ [][Next]_vars

\* every await of a run settles
FairSpec == Spec /\ WF_vars(RunStep)

(***************************************************************************)
(* The derived views over a results collection: the state after a run over *)
(* one PDF whose pages all extracted, page k giving the k-th payload.      *)
(***************************************************************************)
ResultsOf(payloads) == [k \in 1..Len(payloads) |-> PageRecord(payloads[k], k)]

InitView ==
    /\ \E payloads \in SeqsUpTo(ExtractorOutputs, MaxLen) :
          /\ results = ResultsOf(payloads)
          /\ origin = [k \in 1..Len(payloads) |-> [run |-> "current", file |-> 0]]
          /\ files = IF payloads = <<>> THEN <<>> ELSE <<File(TRUE)>>
          /\ progress = IF payloads = <<>> THEN 0 ELSE 100
    /\ isProcessing = FALSE
    /\ error = NoError
    /\ selectedCandidates = TARGET_CANDIDATES
    /\ pc = "idle"
    /\ runFiles = <<>>
    /\ fileIdx = 0
    /\ pageIdx = 0
    /\ pagesCount = 0
    /\ csv = NoFile
    /\ discarded = FALSE
    /\ exported = FALSE

NextView ==
    \/ \E c \in {TARGET_CANDIDATES[k] : k \in 1..Len(TARGET_CANDIDATES)} : toggleCandidate(c)
    \/ selectAllCandidates
    \/ clearAllCandidates
    \/ downloadCSV

SpecView == InitView /\ [][NextView]_vars

(***************************************************************************)
(* The classifier on every page index: a run over one PDF of MaxPageIndex  *)
(* pages, suspended in the extraction of page i after the extraction of    *)
(* every earlier page failed.                                              *)
(***************************************************************************)
InitClassify ==
    /\ \E i \in 1..MaxPageIndex :
          /\ pageIdx = i
          /\ progress = ProgressAfter(0, i - 1, MaxPageIndex, 1)
    /\ files = <<File(TRUE)>>
    /\ runFiles = <<File(TRUE)>>
    /\ results = <<>>
    /\ origin = <<>>
    /\ isProcessing = TRUE
    /\ error = NoError
    /\ selectedCandidates = TARGET_CANDIDATES
    /\ pc = "extract"
    /\ fileIdx = 0
    /\ pagesCount = MaxPageIndex
    /\ csv = NoFile
    /\ discarded = FALSE
    /\ exported = FALSE

NextClassify == \E data \in ExtractorOutputs : ExtractOK(data)

SpecClassify == InitClassify /\ [][NextClassify]_vars

(***************************************************************************)
(* What the claims are stated with. None of it is used by the model above. *)
(***************************************************************************)
RECURSIVE SumOn(_, _)
\* the sum of f[x] over x in S
SumOn(f, S) ==
    IF S = {} THEN 0
    ELSE LET x == CHOOSE y \in S : TRUE IN f[x] + SumOn(f, S \ {x})

Range(q) == {q[k] : k \in 1..Len(q)}

\* the district key of a PageRecord, as the specification states it
DistrictKeyOf(r) == IF r.district = "" THEN "Unknown" ELSE r.district

\* the positions in results of the PageRecords of district key d
PagesOf(d) == {k \in 1..Len(results) : DistrictKeyOf(results[k]) = d}

\* the (page, position) pairs of the CandidateVotes named c on the pages of d
VotesOf(d, c) ==
    UNION {{<<k, j>> : j \in {m \in 1..Len(results[k].candidateVotes) :
                                 results[k].candidateVotes[m].candidateName = c}} :
           k \in PagesOf(d)}

NamesOn(d) ==
    UNION {{cv.candidateName : cv \in Range(results[k].candidateVotes)} : k \in PagesOf(d)}

ExpectedLabel(i, v) ==
    CASE i \in 1..26 -> "(Early In)"
      [] i \in 27..168 -> "(Election Day)"
      [] i = 169 -> "(Early Out)"
      [] i = 170 -> "(Overseas)"
      [] i = 171 -> "(Absentee)"
      [] OTHER -> v

\* C3: the record appended for page index i is the extractor's payload with
\* votingType replaced by the label of i (pages 1-26, 27-168, 169, 170, 171,
\* whatever the payload's votingType) or left as the payload gave it (any
\* other index, 0 and 172 among them), and with pageNumber i.
TheoremC3 ==
    /\ [](\A v \in {d.votingType : d \in ExtractorOutputs} : mappedType(0, v) = v)
    /\ [][(pc = "extract" /\ Len(results') = Len(results) + 1) =>
             \E d \in ExtractorOutputs :
                 results'[Len(results')] =
                     [d EXCEPT !.votingType = ExpectedLabel(pageIdx, d.votingType),
                               !.pageNumber = pageIdx]]_vars

\* page 172 was appended with the votingType of its payload, which is another
\* page's label
WitnessC3 ==
    /\ Len(results) = 1
    /\ results[1].pageNumber = 172
    /\ results[1].votingType = "(Early Out)"

\* C4: the file holds one data row per PageRecord, in results order, between
\* the header and the totals row; the k-th carries the k-th record's district,
\* voting type, validVotes, invalidVotes and totalVotes, then one triple per
\* selected candidate in selection order: 0,0,0 when the record has no
\* CandidateVote of that name, else the counts of a CandidateVote of that name.
TheoremC4 ==
    csv # NoFile =>
        LET pages == results
            selection == selectedCandidates
        IN  /\ pages # <<>> /\ selection # <<>>
            /\ Len(csv) = Len(pages) + 2
            /\ \A k \in 1..Len(pages) :
                  LET row == csv[k + 1]
                      r == pages[k]
                  IN  /\ row.text = <<"\"" \o r.district \o "\"", "\"" \o r.votingType \o "\"">>
                      /\ Len(row.nums) = 3 + 3 * Len(selection)
                      /\ SubSeq(row.nums, 1, 3) = <<r.validVotes, r.invalidVotes, r.totalVotes>>
                      /\ \A j \in 1..Len(selection) :
                            LET triple == SubSeq(row.nums, 3 * j + 1, 3 * j + 3)
                                named == {cv \in Range(r.candidateVotes) :
                                             cv.candidateName = selection[j]}
                            IN  IF named = {} THEN triple = <<0, 0, 0>>
                                ELSE \E cv \in named :
                                        triple = <<cv.classifiedVotes, cv.reconfirmVotes,
                                                   cv.totalVotes>>

\* a download of several records with the selection in another order than
\* TARGET_CANDIDATES, one record lacking a selected candidate and another
\* holding votes for it
WitnessC4 ==
    /\ csv # NoFile
    /\ Len(results) >= 2
    /\ Len(selectedCandidates) = 2
    /\ selectedCandidates # TARGET_CANDIDATES
    /\ \E k, m \in 1..Len(results) :
          /\ SubSeq(csv[k + 1].nums, 4, 6) = <<0, 0, 0>>
          /\ \A cv \in Range(results[k].candidateVotes) :
                cv.candidateName # selectedCandidates[1]
          /\ csv[m + 1].nums[4] > 0

\* C5: the last row is labeled with the totals label and an empty type, and
\* each of its numeric columns is the sum of that column over the data rows;
\* for valid, invalid and total that is the sum of the field over results.
TheoremC5 ==
    csv # NoFile =>
        LET pages == results
            selection == selectedCandidates
            last == csv[Len(csv)]
            rows == 2..(Len(csv) - 1)
        IN  /\ Len(csv) = Len(pages) + 2
            /\ last.text = <<"\"Grand Total\"", "\"\"">>
            /\ Len(last.nums) = 3 + 3 * Len(selection)
            /\ \A col \in 1..Len(last.nums) :
                  last.nums[col] = SumOn([k \in rows |-> csv[k].nums[col]], rows)
            /\ last.nums[1] = SumOn([k \in DOMAIN pages |-> pages[k].validVotes], DOMAIN pages)
            /\ last.nums[2] = SumOn([k \in DOMAIN pages |-> pages[k].invalidVotes], DOMAIN pages)
            /\ last.nums[3] = SumOn([k \in DOMAIN pages |-> pages[k].totalVotes], DOMAIN pages)

\* a download of three records in which the three candidate columns of a
\* selected candidate have different, positive totals
WitnessC5 ==
    /\ csv # NoFile
    /\ Len(csv) = 5
    /\ LET last == csv[Len(csv)]
       IN  /\ last.nums[4] > last.nums[5]
           /\ last.nums[5] > 0
           /\ last.nums[6] # last.nums[4] + last.nums[5]
           /\ \A k \in 2..4 : csv[k].nums[4] > 0

\* p is n / d rounded to the nearest integer, halves up
IsRounded(p, n, d) == 2 * d * p <= 2 * n + d /\ 2 * n + d < 2 * d * (p + 1)

\* the PDFs of the running list after the file being processed
LaterPdfs == {j \in (fileIdx + 1)..(Len(runFiles) - 1) : runFiles[j + 1].pdf}

\* the step in which an extraction call settles
ExtractionSettles == pc = "extract" /\ pc' # "extract"

\* C6: when the extraction of a page fails, results is as before, no error is
\* set, progress is what the page's formula gives, and the run goes on: with
\* the next page of the file, else with the next PDF of the list, and only
\* when there is neither does it end, as a run that completed.
TheoremC6 ==
    [][(ExtractionSettles /\ Len(results') = Len(results)) =>
          /\ results' = results
          /\ error' = error
          /\ error' = NoError
          /\ IF pageIdx < pagesCount
               THEN /\ pc' = "render"
                    /\ pageIdx' = pageIdx + 1
                    /\ fileIdx' = fileIdx /\ runFiles' = runFiles
                    /\ isProcessing'
                    /\ IsRounded(progress', (fileIdx * pagesCount + pageIdx) * 100,
                                 pagesCount * Len(runFiles))
               ELSE IF LaterPdfs # {}
                 THEN /\ pc' = "load"
                      /\ fileIdx' \in LaterPdfs
                      /\ \A j \in LaterPdfs : fileIdx' <= j
                      /\ runFiles' = runFiles
                      /\ isProcessing'
                      /\ IsRounded(progress', (fileIdx * pagesCount + pageIdx) * 100,
                                   pagesCount * Len(runFiles))
                 ELSE pc' = "idle" /\ ~isProcessing' /\ progress' = 100]_vars

\* page 1 of the first file failed, page 2 of it was appended, then a page of
\* the second file, and the run ended with no error
WitnessC6 ==
    /\ Len(results) = 2
    /\ results[1].pageNumber = 2
    /\ origin[1].file = 0
    /\ origin[2].file = 1
    /\ pc = "idle"
    /\ error = NoError

\* the step in which a rejection outside the per-page try ends the run
RunFails == pc \in {"load", "render"} /\ pc' = "idle"

\* C7: a run-level failure ends the run (nothing is appended while its error
\* message stands), sets the one error message, and leaves in results every
\* record appended before it, in the same order.
TheoremC7 ==
    /\ [][RunFails =>
             /\ results' = results
             /\ error' = "Extraction failed"
             /\ ~isProcessing']_vars
    /\ [][(error # NoError) => (results' = results \/ error' = NoError)]_vars
    /\ [](error # NoError => pc = "idle" /\ ~isProcessing)

\* a failure after two records: both are still there
WitnessC7 ==
    /\ error # NoError
    /\ Len(results) = 2
    /\ pc = "idle"

\* C8: a run that is processing eventually is not, with progress 100.
TheoremC8 == isProcessing ~> (~isProcessing /\ progress = 100)

\* a second run is over with progress 100: ended by a failure after its
\* first record, or ended regularly after four
WitnessC8 ==
    /\ ~isProcessing
    /\ progress = 100
    /\ discarded
    /\ \/ error # NoError /\ Len(results) = 1
       \/ error = NoError /\ Len(results) = 4

\* the step in which startExtraction suspends at its first PDF
RunStarts == pc = "idle" /\ pc' = "load"

\* C9: a run starts with results empty, progress 0 and error null, and every
\* record of results was appended by the run that is running or ran last.
TheoremC9 ==
    /\ [][RunStarts => results' = <<>> /\ progress' = 0 /\ error' = NoError]_vars
    /\ [][(pc = "idle" /\ results' # results) => results' = <<>>]_vars
    /\ [](Len(origin) = Len(results) /\ \A k \in 1..Len(origin) : origin[k].run = "current")

\* a run that found records of an earlier run has appended its own
WitnessC9 ==
    /\ discarded
    /\ results # <<>>
    /\ isProcessing

\* C10: records of an earlier file precede those of a later file, within one
\* file pageNumber increases strictly, and pageNumber is the index of the
\* page in the loop of processFile, not the extractor's: at least 1, and
\* while a file is processed the records of it are of pages before the
\* current one, or the current one once its extraction settled.
TheoremC10 ==
    /\ Len(origin) = Len(results)
    /\ \A j, k \in 1..Len(results) :
          j < k =>
             /\ origin[j].file <= origin[k].file
             /\ origin[j].file = origin[k].file =>
                   results[j].pageNumber < results[k].pageNumber
    /\ \A k \in 1..Len(results) :
          /\ results[k].pageNumber >= 1
          /\ pc # "idle" => origin[k].file <= fileIdx
          /\ (pc \in {"render", "extract"} /\ origin[k].file = fileIdx) =>
                results[k].pageNumber < pageIdx

\* two pages of the first file, then a page of the second
WitnessC10 ==
    /\ Len(results) = 3
    /\ origin[1].file = 0 /\ origin[2].file = 0 /\ origin[3].file = 1
    /\ results[2].pageNumber = 2
    /\ results[3].pageNumber = 1

\* the positions on record r of the CandidateVotes named c
NamedOn(r, c) == {m \in 1..Len(r.candidateVotes) : r.candidateVotes[m].candidateName = c}

\* the first CandidateVote named c on record r, which has one
FirstNamed(r, c) ==
    r.candidateVotes[CHOOSE m \in NamedOn(r, c) : \A n \in NamedOn(r, c) : m <= n]

\* C11: in a downloaded file the total cell of a selected candidate present
\* on a record is the stored totalVotes of the record's first CandidateVote
\* of that name, and a district's total of a candidate is the sum of the
\* stored totalVotes of the CandidateVotes of that name on its pages; neither
\* is classified + reconfirm where the stored total differs from it.
TheoremC11 ==
    /\ csv # NoFile =>
          \A k \in 1..Len(results) : \A j \in 1..Len(selectedCandidates) :
              NamedOn(results[k], selectedCandidates[j]) # {} =>
                  csv[k + 1].nums[3 * j + 3] =
                      FirstNamed(results[k], selectedCandidates[j]).totalVotes
    /\ \A e \in Range(districtSummary(results)) :
          \A c \in DOMAIN e.votesByCandidate :
              LET votes == VotesOf(e.district, c)
              IN  e.votesByCandidate[c].total =
                      SumOn([kj \in votes |->
                                results[kj[1]].candidateVotes[kj[2]].totalVotes], votes)

\* a download whose first data line holds, for the first selected candidate,
\* a stored total that is not classified + reconfirm, the district's total of
\* that candidate differing from the sum of its parts as well
WitnessC11 ==
    /\ csv # NoFile
    /\ LET c == selectedCandidates[1]
           row == csv[2]
       IN  /\ NamedOn(results[1], c) # {}
           /\ row.nums[6] # row.nums[4] + row.nums[5]
           /\ row.nums[6] = FirstNamed(results[1], c).totalVotes
           /\ \E e \in Range(districtSummary(results)) :
                 /\ e.district = DistrictKeyOf(results[1])
                 /\ e.votesByCandidate[c].total #
                       e.votesByCandidate[c].classified + e.votesByCandidate[c].reconfirm

\* the rearrangements of the positions 1..n
Permutations(n) == {p \in [1..n -> 1..n] : \A a, b \in 1..n : p[a] = p[b] => a = b}

\* the pages in the order p
Permuted(pages, p) == [k \in 1..Len(pages) |-> pages[p[k]]]

\* C12: every rearrangement of the results collection is aggregated to the
\* same set of DistrictSummaries: the same districts, each with the same
\* validTotal, invalidTotal, grandTotal and the same classified / reconfirm /
\* total of every candidate.
TheoremC12 ==
    LET summaries == Range(districtSummary(results))
    IN  \A p \in Permutations(Len(results)) :
            Range(districtSummary(Permuted(results, p))) = summaries

\* three records of two districts, one district holding two of them, and a
\* rearrangement of them whose summaries come out in another order
WitnessC12 ==
    /\ Len(results) = 3
    /\ \E a, b \in 1..3 : a # b /\ DistrictKeyOf(results[a]) = DistrictKeyOf(results[b])
    /\ \E a, b \in 1..3 : DistrictKeyOf(results[a]) # DistrictKeyOf(results[b])
    /\ \E p \in Permutations(3) :
          /\ districtSummary(Permuted(results, p)) # districtSummary(results)
          /\ Range(districtSummary(Permuted(results, p))) = Range(districtSummary(results))

\* C13: a call of downloadCSV with an empty results collection or an empty
\* selection produces no file and leaves error, results, progress and the
\* selection as they were.
TheoremC13 ==
    [][(exported' /\ (results = <<>> \/ selectedCandidates = <<>>)) =>
          /\ csv' = NoFile
          /\ error' = error
          /\ results' = results
          /\ progress' = progress
          /\ selectedCandidates' = selectedCandidates]_vars

\* downloadCSV has just returned with records held and nothing selected
WitnessC13 ==
    /\ exported
    /\ results # <<>>
    /\ selectedCandidates = <<>>
    /\ csv = NoFile
    /\ error = NoError

\* the position of the first record of district key d
FirstSeen(d) == CHOOSE k \in PagesOf(d) : \A m \in PagesOf(d) : k <= m

\* the position of the summary of district key d
SummaryAt(d) ==
    CHOOSE k \in 1..Len(districtSummary(results)) : districtSummary(results)[k].district = d

\* C14: the summaries come in first-seen-district order: of two district
\* keys, the one whose first record comes earlier has the earlier summary.
CounterC14 ==
    \A a, b \in {DistrictKeyOf(results[k]) : k \in 1..Len(results)} :
        FirstSeen(a) < FirstSeen(b) => SummaryAt(a) < SummaryAt(b)

\* C15: progress is always in 0..100; a run starts at 0; while a run is on
\* progress never decreases; the value written after a page is the rounded
\* formula of that page, at least the value before it, and it is what
\* progress shows unless the run ends in the same step, which shows 100; and
\* once a run is over progress changes only when the next run starts.
TheoremC15 ==
    /\ [](progress \in 0..100)
    /\ [][RunStarts => progress' = 0]_vars
    /\ [][(pc # "idle") => progress <= progress']_vars
    /\ [][ExtractionSettles =>
             \E written \in 0..100 :
                 /\ IsRounded(written, (fileIdx * pagesCount + pageIdx) * 100,
                              pagesCount * Len(runFiles))
                 /\ progress <= written
                 /\ progress' = IF pc' = "idle" THEN 100 ELSE written]_vars
    /\ [][(pc = "idle" /\ progress' < progress) => RunStarts]_vars

\* the second file of a run is at its second page: 25, 50 and 75 were
\* written in turn
WitnessC15 ==
    /\ pc = "render"
    /\ isProcessing
    /\ Len(runFiles) = 2
    /\ fileIdx = 1
    /\ pageIdx = 2
    /\ pagesCount = 2
    /\ progress = 75

\* what a DistrictSummary holds for candidate c, zeros where it has no entry
SummaryVotes(e, c) ==
    IF c \in DOMAIN e.votesByCandidate THEN e.votesByCandidate[c] ELSE ZeroVotes

\* C16: the totals row of a downloaded file agrees with the aggregator on the
\* same results: its valid / invalid / total cells are the sums of validTotal
\* / invalidTotal / grandTotal over the DistrictSummaries, and the three
\* cells of each selected candidate are the sums of that candidate's
\* classified / reconfirm / total over the DistrictSummaries.
CounterC16 ==
    csv # NoFile =>
        LET summaries == districtSummary(results)
            at == DOMAIN summaries
            last == csv[Len(csv)]
        IN  /\ last.nums[1] = SumOn([k \in at |-> summaries[k].validTotal], at)
            /\ last.nums[2] = SumOn([k \in at |-> summaries[k].invalidTotal], at)
            /\ last.nums[3] = SumOn([k \in at |-> summaries[k].grandTotal], at)
            /\ \A j \in 1..Len(selectedCandidates) :
                  LET c == selectedCandidates[j]
                  IN  /\ last.nums[3 * j + 1] =
                            SumOn([k \in at |-> SummaryVotes(summaries[k], c).classified], at)
                      /\ last.nums[3 * j + 2] =
                            SumOn([k \in at |-> SummaryVotes(summaries[k], c).reconfirm], at)
                      /\ last.nums[3 * j + 3] =
                            SumOn([k \in at |-> SummaryVotes(summaries[k], c).total], at)

=============================================================================
